---- MODULE Spec2Model ----
(***************************************************************************)
(* basu: an in-process event bus.  EventBus<T> owns one table              *)
(* (event_handler_map: event type -> handler registry), guarded by a       *)
(* mutex; every registry (handler_map: HandlerId -> Handler) is guarded by *)
(* a mutex of its own.  The crate is built with exactly one of two         *)
(* features: "async" (tokio mutexes, futures::try_join_all) or "sync"      *)
(* (std mutexes with poisoning, rayon par_iter().try_for_each).            *)
(*                                                                         *)
(* Callers are processes; each public method is split at its lock          *)
(* acquisitions and, for publish, at every handler poll / start / finish.  *)
(***************************************************************************)
EXTENDS Integers, FiniteSets, Sequences, TLC

\* ---------------------------------------------------------------- bounds
MaxIds == 2

\* Two concurrent callers of one bus.
Procs == {1, 2}
Ids == 1..MaxIds
NoOwner == 0

EventTypes == {"a", "b"}
\* A handler is user code; what the bus can observe of it is whether
\* handle() returns Ok(()) or Err(..).
Handlers == {"ok", "fail"}

\* A handler whose body calls a method of the bus it is subscribed to before
\* it returns Ok(()).
CallsBus == "calls_bus"
Modes == {"async", "sync"}
Methods == {"subscribe", "unsubscribe", "publish", "list", "get_handler_count", "clear"}

VARIABLES
    mode,               \* cargo feature the crate was built with
    event_handler_map,  \* the table: function, DOMAIN = known event types
    table_lock,         \* holder of the table mutex guard, or NoOwner
    handler_map_lock,   \* per event type: holder of that registry's guard
    table_poisoned,     \* std::sync::Mutex poison flag of the table
    handler_map_poisoned, \* per event type: poison flag of its registry
    next_id,            \* number of HandlerIds minted so far
    pc,                 \* per caller: position inside the method
    call,               \* per caller: method and arguments of the call
    result,             \* per caller: value returned by the last call
    futures,            \* per caller: handler invocations in iteration order
    inv,                \* per caller: state of each handler invocation
    cursor,             \* per caller: poll position inside try_join_all
    seen_at_lock,       \* history, per caller: ids in the registry when its lock was taken
    issued,             \* history: ids returned by subscribe per type since the last clear
    removed,            \* history: issued ids later passed to a successful unsubscribe
    cleared             \* history: types dropped by clear and not subscribed to since

vars == <<mode, event_handler_map, table_lock, handler_map_lock, table_poisoned,
          handler_map_poisoned, next_id, pc, call, result, futures, inv, cursor,
          seen_at_lock, issued, removed, cleared>>

busVars == <<event_handler_map, next_id, issued, removed, cleared>>
lockVars == <<table_lock, handler_map_lock, table_poisoned, handler_map_poisoned>>
dispatchVars == <<futures, inv, cursor>>
procVars == <<futures, inv, cursor, seen_at_lock>>

\* --------------------------------------------------------------- helpers
EmptyMap == [x \in {} |-> "ok"]

NoCall == [method |-> "none", event_type |-> "a", handler |-> "ok", handler_id |-> 0]

\* BasuError variants plus Ok; id/count/types carry the payload.
Result(kind, id, count, types) == [kind |-> kind, id |-> id, count |-> count, types |-> types]
NoResult == Result("None", 0, 0, {})
Ok == Result("Ok", 0, 0, {})
MutexPoisoned == Result("MutexPoisoned", 0, 0, {})
EventTypeNotFOUND == Result("EventTypeNotFOUND", 0, 0, {})
HandlerError(id) == Result("HandlerError", id, 0, {})

\* HashMap::insert / HashMap::remove on a map represented as a function.
MapInsert(m, k, v) == [x \in (DOMAIN m) \cup {k} |-> IF x = k THEN v ELSE m[x]]
MapRemove(m, k) == [x \in (DOMAIN m) \ {k} |-> m[x]]

Min(S) == CHOOSE x \in S : \A y \in S : x <= y

Range(s) == {s[i] : i \in 1..Len(s)}
\* HashMap iteration visits every key once, in an unspecified order.
IterOrders(S) == {s \in [1..Cardinality(S) -> S] : Range(s) = S}

\* Taking a returned value touches only the caller's own record and commutes
\* with every step of every other caller, so it is scheduled first: no bus
\* interleaving is lost and finished records do not pile up.
NoneDone == \A q \in Procs : pc[q] # "done"

\* Caller p is at position l of its method and may take its next step.
At(p, l) == NoneDone /\ pc[p] = l

\* -------------------------------------------------------------------- Init
Init ==
    /\ mode \in Modes
    /\ event_handler_map = EmptyMap
    /\ table_lock = NoOwner
    /\ handler_map_lock = [t \in EventTypes |-> NoOwner]
    /\ table_poisoned = FALSE
    /\ handler_map_poisoned = [t \in EventTypes |-> FALSE]
    /\ next_id = 0
    /\ pc = [p \in Procs |-> "idle"]
    /\ call = [p \in Procs |-> NoCall]
    /\ result = [p \in Procs |-> NoResult]
    /\ futures = [p \in Procs |-> <<>>]
    /\ inv = [p \in Procs |-> EmptyMap]
    /\ cursor = [p \in Procs |-> 0]
    /\ seen_at_lock = [p \in Procs |-> {}]
    /\ issued = [t \in EventTypes |-> {}]
    /\ removed = [t \in EventTypes |-> {}]
    /\ cleared = {}

\* Variant: the table guard is leaked (never dropped) at the end of the method.
ReleaseAll_leaks_table(p) ==
    /\ table_lock' = table_lock
    /\ handler_map_lock' = [t \in EventTypes |->
                              IF handler_map_lock[t] = p THEN NoOwner ELSE handler_map_lock[t]]

\* MutexGuard drop at the end of the method: the registry guard (declared in
\* the match arm) and the table guard (declared first) are both released.
ReleaseAll(p) ==
    /\ table_lock' = IF table_lock = p THEN NoOwner ELSE table_lock
    /\ handler_map_lock' = [t \in EventTypes |->
                              IF handler_map_lock[t] = p THEN NoOwner ELSE handler_map_lock[t]]

Return(p, r) ==
    /\ pc' = [pc EXCEPT ![p] = "done"]
    /\ result' = [result EXCEPT ![p] = r]

\* ----------------------------------------------------------- the callers
\* A caller invokes one of the six public methods.  HandlerId 0 stands for
\* an id the caller made itself with HandlerId::new(): no subscribe call
\* ever returns it.
Call(p) ==
    /\ At(p, "idle")
    /\ \E m \in Methods, t \in EventTypes, h \in Handlers, id \in 0..next_id :
          /\ m = "subscribe" =>
                next_id + Cardinality({q \in Procs : call[q].method = "subscribe"}) < MaxIds
          /\ m # "subscribe" => h = "ok"
          /\ m # "unsubscribe" => id = 0
          /\ m \in {"list", "clear"} => t = "a"
          /\ call' = [call EXCEPT ![p] =
                        [method |-> m, event_type |-> t, handler |-> h, handler_id |-> id]]
    /\ pc' = [pc EXCEPT ![p] = "lock_table"]
    /\ UNCHANGED <<mode, busVars, lockVars, result, procVars>>

\* A caller subscribes a handler that calls the bus.
subscribe_reentrant(p) ==
    /\ At(p, "idle")
    /\ next_id + Cardinality({q \in Procs : call[q].method = "subscribe"}) < MaxIds
    /\ \E t \in EventTypes :
          call' = [call EXCEPT ![p] = [method |-> "subscribe", event_type |-> t,
                                       handler |-> CallsBus, handler_id |-> 0]]
    /\ pc' = [pc EXCEPT ![p] = "lock_table"]
    /\ UNCHANGED <<mode, busVars, lockVars, result, procVars>>

\* The caller takes the returned value; the record of the finished call
\* (arguments, result, handler invocations) is forgotten.
Resume(p) ==
    /\ pc[p] = "done"
    /\ pc' = [pc EXCEPT ![p] = "idle"]
    /\ call' = [call EXCEPT ![p] = NoCall]
    /\ result' = [result EXCEPT ![p] = NoResult]
    /\ futures' = [futures EXCEPT ![p] = <<>>]
    /\ inv' = [inv EXCEPT ![p] = EmptyMap]
    /\ cursor' = [cursor EXCEPT ![p] = 0]
    /\ seen_at_lock' = [seen_at_lock EXCEPT ![p] = {}]
    /\ UNCHANGED <<mode, busVars, lockVars>>


\* Variant: the method goes on without holding the table guard.
LockTable_not_held(p) ==
    /\ At(p, "lock_table")
    /\ pc' = [pc EXCEPT ![p] = "table_locked"]
    /\ UNCHANGED <<mode, busVars, lockVars, call, result, procVars>>

\* Variant: a PoisonError is unwrapped into its guard and the method goes on.
LockTable_ignores_poison(p) ==
    /\ At(p, "lock_table")
    /\ table_lock = NoOwner
    /\ table_lock' = p
    /\ pc' = [pc EXCEPT ![p] = "table_locked"]
    /\ UNCHANGED <<mode, busVars, handler_map_lock, table_poisoned, handler_map_poisoned,
                   call, result, procVars>>

\* self.event_handler_map.lock(): first statement of every method.  The
\* sync build maps a PoisonError to BasuError::MutexPoisoned and returns
\* (the guard inside the error is dropped); tokio's mutex never poisons.
LockTable(p) ==
    /\ At(p, "lock_table")
    /\ table_lock = NoOwner
    /\ IF mode = "sync" /\ table_poisoned
          THEN /\ Return(p, MutexPoisoned)
               /\ UNCHANGED table_lock
          ELSE /\ table_lock' = p
               /\ pc' = [pc EXCEPT ![p] = "table_locked"]
               /\ UNCHANGED result
    /\ UNCHANGED <<mode, busVars, handler_map_lock, table_poisoned, handler_map_poisoned,
                   call, procVars>>

\* handler_map.lock() in the Some(handler_map) arm.
LockHandlerMap(p) ==
    /\ At(p, "lock_handler_map")
    /\ handler_map_lock[call[p].event_type] = NoOwner
    /\ IF mode = "sync" /\ handler_map_poisoned[call[p].event_type]
          THEN /\ Return(p, MutexPoisoned)
               /\ ReleaseAll(p)
               /\ UNCHANGED seen_at_lock
          ELSE /\ handler_map_lock' = [handler_map_lock EXCEPT ![call[p].event_type] = p]
               /\ pc' = [pc EXCEPT ![p] = "handler_map_locked"]
               /\ seen_at_lock' = [seen_at_lock EXCEPT
                                     ![p] = DOMAIN event_handler_map[call[p].event_type]]
               /\ UNCHANGED <<result, table_lock>>
    /\ UNCHANGED <<mode, busVars, table_poisoned, handler_map_poisoned, call, dispatchVars>>

\* ------------------------------------------------------------- subscribe
\* HandlerId::new(): a fresh Uuid::new_v4().
NewHandlerId == next_id + 1

\* None arm: a new registry holding only the new handler.
NewHandlerMap(id, h) == MapInsert(EmptyMap, id, h)

\* Variant: the Some arm stores a new registry in place of the existing one.
InsertHandler_replaces_registry(hm, id, h) == MapInsert(EmptyMap, id, h)

\* Some arm: handler_map.insert(handler_id.clone(), handler).
InsertHandler(hm, id, h) == MapInsert(hm, id, h)

\* Variant: the lookup always takes the None arm and stores a new registry.
subscribe_match_always_none(p) ==
    /\ At(p, "table_locked")
    /\ call[p].method = "subscribe"
    /\ LET t == call[p].event_type
           id == NewHandlerId
       IN /\ event_handler_map' =
                [u \in DOMAIN event_handler_map \cup {t} |->
                    IF u = t THEN NewHandlerMap(id, call[p].handler)
                             ELSE event_handler_map[u]]
          /\ next_id' = id
          /\ issued' = [issued EXCEPT ![t] = @ \cup {id}]
          /\ cleared' = cleared \ {t}
          /\ UNCHANGED removed
          /\ Return(p, Result("Ok", id, 0, {}))
          /\ ReleaseAll(p)
          /\ UNCHANGED <<table_poisoned, handler_map_poisoned>>
    /\ UNCHANGED <<mode, call, procVars>>

\* match event_handler_map.get(event_type) in subscribe.
subscribe_match(p) ==
    /\ At(p, "table_locked")
    /\ call[p].method = "subscribe"
    /\ LET t == call[p].event_type
           id == NewHandlerId
       IN IF t \in DOMAIN event_handler_map
             THEN /\ pc' = [pc EXCEPT ![p] = "lock_handler_map"]
                  /\ UNCHANGED <<busVars, lockVars, result>>
             ELSE /\ event_handler_map' = MapInsert(event_handler_map, t,
                                                    NewHandlerMap(id, call[p].handler))
                  /\ next_id' = id
                  /\ issued' = [issued EXCEPT ![t] = @ \cup {id}]
                  /\ cleared' = cleared \ {t}
                  /\ UNCHANGED removed
                  /\ Return(p, Result("Ok", id, 0, {}))
                  /\ ReleaseAll(p)
                  /\ UNCHANGED <<table_poisoned, handler_map_poisoned>>
    /\ UNCHANGED <<mode, call, procVars>>

subscribe_insert(p) ==
    /\ At(p, "handler_map_locked")
    /\ call[p].method = "subscribe"
    /\ LET t == call[p].event_type
           id == NewHandlerId
       IN /\ event_handler_map' = [event_handler_map EXCEPT
                                     ![t] = InsertHandler(@, id, call[p].handler)]
          /\ next_id' = id
          /\ issued' = [issued EXCEPT ![t] = @ \cup {id}]
          /\ Return(p, Result("Ok", id, 0, {}))
    /\ ReleaseAll(p)
    /\ UNCHANGED <<mode, removed, cleared, table_poisoned, handler_map_poisoned, call,
                   procVars>>

\* ----------------------------------------------------------- unsubscribe
\* Variant: remove() empties the registry.
RemoveHandler_removes_all(hm, id) == IF id \in DOMAIN hm THEN EmptyMap ELSE hm

\* Variant: remove() takes out another entry than the one addressed.
RemoveHandler_removes_other(hm, id) ==
    IF id \in DOMAIN hm THEN MapRemove(hm, Min(DOMAIN hm)) ELSE hm

\* handler_map.remove(handler_id): no effect when the id is not a key.
RemoveHandler(hm, id) == MapRemove(hm, id)

\* Variant: the None arm answers Ok(()) instead of the error.
MatchGet_none_is_ok(p) ==
    /\ At(p, "table_locked")
    /\ IF call[p].event_type \in DOMAIN event_handler_map
          THEN /\ pc' = [pc EXCEPT ![p] = "lock_handler_map"]
               /\ UNCHANGED <<lockVars, result>>
          ELSE /\ Return(p, Ok)
               /\ ReleaseAll(p)
               /\ UNCHANGED <<table_poisoned, handler_map_poisoned>>
    /\ UNCHANGED <<mode, busVars, call, procVars>>

\* The three methods whose None arm is Err(BasuError::EventTypeNotFOUND).
MatchGet(p) ==
    /\ At(p, "table_locked")
    /\ IF call[p].event_type \in DOMAIN event_handler_map
          THEN /\ pc' = [pc EXCEPT ![p] = "lock_handler_map"]
               /\ UNCHANGED <<lockVars, result>>
          ELSE /\ Return(p, EventTypeNotFOUND)
               /\ ReleaseAll(p)
               /\ UNCHANGED <<table_poisoned, handler_map_poisoned>>
    /\ UNCHANGED <<mode, busVars, call, procVars>>

unsubscribe_match(p) ==
    /\ call[p].method = "unsubscribe"
    /\ MatchGet(p)

\* Variant: the id is removed from the registry of every type.
unsubscribe_remove_from_every_type(p) ==
    /\ At(p, "handler_map_locked")
    /\ call[p].method = "unsubscribe"
    /\ LET id == call[p].handler_id
       IN /\ event_handler_map' = [u \in DOMAIN event_handler_map |->
                                     RemoveHandler(event_handler_map[u], id)]
          /\ removed' = [u \in EventTypes |-> removed[u] \cup ({id} \cap issued[u])]
    /\ Return(p, Ok)
    /\ ReleaseAll(p)
    /\ UNCHANGED <<mode, next_id, issued, cleared, table_poisoned,
                   handler_map_poisoned, call, procVars>>

\* Variant: the entry of the type is dropped with its last handler.
unsubscribe_remove_drops_empty_entry(p) ==
    /\ At(p, "handler_map_locked")
    /\ call[p].method = "unsubscribe"
    /\ LET t == call[p].event_type
           id == call[p].handler_id
           hm == RemoveHandler(event_handler_map[t], id)
       IN /\ event_handler_map' = IF DOMAIN hm = {}
                                     THEN MapRemove(event_handler_map, t)
                                     ELSE [event_handler_map EXCEPT ![t] = hm]
          /\ removed' = [removed EXCEPT ![t] = @ \cup ({id} \cap issued[t])]
    /\ Return(p, Ok)
    /\ ReleaseAll(p)
    /\ UNCHANGED <<mode, next_id, issued, cleared, table_poisoned,
                   handler_map_poisoned, call, procVars>>

unsubscribe_remove(p) ==
    /\ At(p, "handler_map_locked")
    /\ call[p].method = "unsubscribe"
    /\ LET t == call[p].event_type
           id == call[p].handler_id
       IN /\ event_handler_map' = [event_handler_map EXCEPT ![t] = RemoveHandler(@, id)]
          /\ removed' = [removed EXCEPT ![t] = @ \cup ({id} \cap issued[t])]
    /\ Return(p, Ok)
    /\ ReleaseAll(p)
    /\ UNCHANGED <<mode, next_id, issued, cleared, table_poisoned,
                   handler_map_poisoned, call, procVars>>

\* ----------------------------------------------------- get_handler_count
\* handler_map.len()
HandlerCount(hm) == Cardinality(DOMAIN hm)

get_handler_count_match(p) ==
    /\ call[p].method = "get_handler_count"
    /\ MatchGet(p)

get_handler_count_len(p) ==
    /\ At(p, "handler_map_locked")
    /\ call[p].method = "get_handler_count"
    /\ Return(p, Result("Ok", 0, HandlerCount(event_handler_map[call[p].event_type]), {}))
    /\ ReleaseAll(p)
    /\ UNCHANGED <<mode, busVars, table_poisoned, handler_map_poisoned, call, procVars>>

\* ------------------------------------------------------------ list, clear
\* Variant: only the types that still have a handler are listed.
Keys_with_handlers(table) == {t \in DOMAIN table : DOMAIN table[t] # {}}

\* event_handler_map.keys().cloned().collect()
Keys(table) == DOMAIN table

list(p) ==
    /\ At(p, "table_locked")
    /\ call[p].method = "list"
    /\ Return(p, Result("Ok", 0, 0, Keys(event_handler_map)))
    /\ ReleaseAll(p)
    /\ UNCHANGED <<mode, busVars, table_poisoned, handler_map_poisoned, call, procVars>>

\* Variant: the registries are emptied but their entries stay in the table.
ClearedTable_keeps_entries(table) == [t \in DOMAIN table |-> EmptyMap]

\* event_handler_map.clear(): every entry, and with it every registry, is dropped.
ClearedTable(table) == EmptyMap

clear(p) ==
    /\ At(p, "table_locked")
    /\ call[p].method = "clear"
    /\ event_handler_map' = ClearedTable(event_handler_map)
    /\ issued' = [t \in EventTypes |-> {}]
    /\ removed' = [t \in EventTypes |-> {}]
    /\ cleared' = cleared \cup DOMAIN event_handler_map
    /\ handler_map_poisoned' = [t \in EventTypes |-> FALSE]
    /\ Return(p, Ok)
    /\ ReleaseAll(p)
    /\ UNCHANGED <<mode, next_id, table_poisoned, call, procVars>>

\* ---------------------------------------------------------------- publish
publish_match(p) ==
    /\ call[p].method = "publish"
    /\ MatchGet(p)

\* Variant: the iteration misses one entry of the registry.
Snapshot_misses_one(hm) == IF DOMAIN hm = {} THEN {} ELSE DOMAIN hm \ {Min(DOMAIN hm)}

\* handler_map.iter() / handler_map.par_iter(): the handlers dispatched to
\* are the keys of the registry when the iterator is made, under its lock.
Snapshot(hm) == DOMAIN hm

\* Variant: the table guard is dropped before the handlers are dispatched.
publish_iter_unlocks_table(p) ==
    /\ At(p, "handler_map_locked")
    /\ call[p].method = "publish"
    /\ \E order \in IterOrders(Snapshot(event_handler_map[call[p].event_type])) :
          futures' = [futures EXCEPT ![p] = order]
    /\ inv' = [inv EXCEPT ![p] =
                 [id \in Snapshot(event_handler_map[call[p].event_type]) |-> "created"]]
    /\ cursor' = [cursor EXCEPT ![p] = 1]
    /\ pc' = [pc EXCEPT ![p] = "dispatch"]
    /\ table_lock' = NoOwner
    /\ UNCHANGED <<mode, busVars, handler_map_lock, table_poisoned, handler_map_poisoned,
                   call, result, seen_at_lock>>

\* async: handler_map.iter().map(|(_id, h)| h.handle(event_data)) builds one
\* future per handler (none has run yet); try_join_all collects them.
\* sync: par_iter() hands the same items to the rayon pool.
publish_iter(p) ==
    /\ At(p, "handler_map_locked")
    /\ call[p].method = "publish"
    /\ \E order \in IterOrders(Snapshot(event_handler_map[call[p].event_type])) :
          futures' = [futures EXCEPT ![p] = order]
    /\ inv' = [inv EXCEPT ![p] =
                 [id \in Snapshot(event_handler_map[call[p].event_type]) |-> "created"]]
    /\ cursor' = [cursor EXCEPT ![p] = 1]
    /\ pc' = [pc EXCEPT ![p] = "dispatch"]
    /\ UNCHANGED <<mode, busVars, lockVars, call, result, seen_at_lock>>

\* handle() of a handler, run to its end: Ok(()) or Err(..).
Outcome(h) == IF h = "fail" THEN "err" ELSE "ok"

HandlerFor(p, id) == event_handler_map[call[p].event_type][id]

\* handle() can run to its end.  The first statement of every bus method is
\* event_handler_map.lock(): the body of a handler that calls the bus gets
\* past that call only if the table lock is free when it asks for it (tokio:
\* lock().await is Pending meanwhile; std: lock() blocks the worker thread).
BodyCanReturn(p, id) == HandlerFor(p, id) = CallsBus => table_lock = NoOwner

Unresolved(p) == {id \in DOMAIN inv[p] : inv[p][id] \in {"created", "pending", "running"}}

\* Indexes at or after the cursor whose future has not resolved.
ToPoll(p) == {i \in cursor[p]..Len(futures[p]) : futures[p][i] \in Unresolved(p)}

\* What try_join_all does with the futures still unresolved when one of them
\* yields Err: it returns at once and the futures are dropped.
DropPeers(st) ==
    [id \in DOMAIN st |->
        IF st[id] = "pending" THEN "cancelled"
        ELSE IF st[id] = "created" THEN "never_polled"
        ELSE st[id]]

\* futures::future::try_join_all(futures).await, one poll of one element.
\* Elements are polled in order; a handler may suspend (Pending) or finish.
\* Ready(Err(e)) ends the poll loop: publish returns Err(e).
try_join_all_poll(p) ==
    /\ At(p, "dispatch")
    /\ mode = "async"
    /\ ToPoll(p) # {}
    /\ LET i == Min(ToPoll(p))
           id == futures[p][i]
       IN \/ /\ inv' = [inv EXCEPT ![p][id] = "pending"]
             /\ cursor' = [cursor EXCEPT ![p] = i + 1]
             /\ UNCHANGED <<pc, result, lockVars>>
          \/ /\ Outcome(HandlerFor(p, id)) = "ok"
             /\ BodyCanReturn(p, id)
             /\ inv' = [inv EXCEPT ![p][id] = "ok"]
             /\ cursor' = [cursor EXCEPT ![p] = i + 1]
             /\ UNCHANGED <<pc, result, lockVars>>
          \/ /\ Outcome(HandlerFor(p, id)) = "err"
             /\ inv' = [inv EXCEPT ![p] = DropPeers([inv[p] EXCEPT ![id] = "err"])]
             /\ cursor' = [cursor EXCEPT ![p] = 0]
             /\ Return(p, HandlerError(id))
             /\ ReleaseAll(p)
             /\ UNCHANGED <<table_poisoned, handler_map_poisoned>>
    /\ UNCHANGED <<mode, busVars, call, futures, seen_at_lock>>

\* The poll loop reached the end with some element Pending: try_join_all
\* returns Pending and is polled again from the first element when woken.
try_join_all_wake(p) ==
    /\ At(p, "dispatch")
    /\ mode = "async"
    /\ ToPoll(p) = {}
    /\ Unresolved(p) # {}
    /\ cursor' = [cursor EXCEPT ![p] = 1]
    /\ UNCHANGED <<mode, busVars, lockVars, pc, call, result, futures, inv, seen_at_lock>>

\* Every element is Ready(Ok): .map(|_| ()) gives Ok(()).
try_join_all_ready(p) ==
    /\ At(p, "dispatch")
    /\ mode = "async"
    /\ Unresolved(p) = {}
    /\ cursor' = [cursor EXCEPT ![p] = 0]
    /\ Return(p, Ok)
    /\ ReleaseAll(p)
    /\ UNCHANGED <<mode, busVars, table_poisoned, handler_map_poisoned, call, futures, inv,
                   seen_at_lock>>

\* rayon try_for_each: a worker takes an item and calls h.handle(event_data)
\* unless an earlier item has already produced Err (short circuit).
try_for_each_start(p, id) ==
    /\ At(p, "dispatch")
    /\ mode = "sync"
    /\ id \in DOMAIN inv[p]
    /\ inv[p][id] = "created"
    /\ \A o \in DOMAIN inv[p] : inv[p][o] # "err"
    /\ inv' = [inv EXCEPT ![p][id] = "running"]
    /\ UNCHANGED <<mode, busVars, lockVars, pc, call, result, futures, cursor, seen_at_lock>>

\* handle() returns on its worker.
try_for_each_finish(p, id) ==
    /\ At(p, "dispatch")
    /\ mode = "sync"
    /\ id \in DOMAIN inv[p]
    /\ inv[p][id] = "running"
    /\ BodyCanReturn(p, id)
    /\ inv' = [inv EXCEPT ![p][id] = Outcome(HandlerFor(p, id))]
    /\ UNCHANGED <<mode, busVars, lockVars, pc, call, result, futures, cursor, seen_at_lock>>

\* Items never handed to a handler because of the short circuit.
SkipRest(st) == [id \in DOMAIN st |-> IF st[id] = "created" THEN "skipped" ELSE st[id]]

\* Variant: a handler that returned Err is taken out of the registry.
try_for_each_return_removes_failed(p) ==
    /\ At(p, "dispatch")
    /\ mode = "sync"
    /\ \A id \in DOMAIN inv[p] : inv[p][id] \notin {"running", "panicked"}
    /\ LET failed == {id \in DOMAIN inv[p] : inv[p][id] = "err"}
           t == call[p].event_type
       IN IF failed # {}
             THEN \E id \in failed :
                     /\ Return(p, HandlerError(id))
                     /\ event_handler_map' = [event_handler_map EXCEPT
                                                ![t] = RemoveHandler(@, id)]
             ELSE /\ \A id \in DOMAIN inv[p] : inv[p][id] = "ok"
                  /\ Return(p, Ok)
                  /\ UNCHANGED event_handler_map
    /\ inv' = [inv EXCEPT ![p] = SkipRest(@)]
    /\ cursor' = [cursor EXCEPT ![p] = 0]
    /\ ReleaseAll(p)
    /\ UNCHANGED <<mode, next_id, issued, removed, cleared, table_poisoned,
                   handler_map_poisoned, call, futures, seen_at_lock>>

\* Variant: the Err of a failed handler is dropped and publish answers Ok(()).
try_for_each_return_swallows_error(p) ==
    /\ At(p, "dispatch")
    /\ mode = "sync"
    /\ \A id \in DOMAIN inv[p] : inv[p][id] \notin {"running", "panicked"}
    /\ \A id \in DOMAIN inv[p] : inv[p][id] # "created" \/ \E o \in DOMAIN inv[p] : inv[p][o] = "err"
    /\ Return(p, Ok)
    /\ inv' = [inv EXCEPT ![p] = SkipRest(@)]
    /\ cursor' = [cursor EXCEPT ![p] = 0]
    /\ ReleaseAll(p)
    /\ UNCHANGED <<mode, busVars, table_poisoned, handler_map_poisoned, call, futures,
                   seen_at_lock>>

\* try_for_each returns once every worker is done: Err of one of the failed
\* handlers (`?` returns it from publish), else Ok(()).  It does not return
\* when a handler panicked: rayon resumes the panic in the caller.
try_for_each_return(p) ==
    /\ At(p, "dispatch")
    /\ mode = "sync"
    /\ \A id \in DOMAIN inv[p] : inv[p][id] \notin {"running", "panicked"}
    /\ LET failed == {id \in DOMAIN inv[p] : inv[p][id] = "err"}
       IN IF failed # {}
             THEN \E id \in failed : Return(p, HandlerError(id))
             ELSE /\ \A id \in DOMAIN inv[p] : inv[p][id] = "ok"
                  /\ Return(p, Ok)
    /\ inv' = [inv EXCEPT ![p] = SkipRest(@)]
    /\ cursor' = [cursor EXCEPT ![p] = 0]
    /\ ReleaseAll(p)
    /\ UNCHANGED <<mode, busVars, table_poisoned, handler_map_poisoned, call, futures,
                   seen_at_lock>>

\* ------------------------------------------- dropping a publish (async)
Cancelled == Result("Cancelled", 0, 0, {})

\* The caller drops the future returned by publish() (select!, timeout,
\* task abort) while it is suspended in try_join_all(handlers).await.  The
\* future owns the TryJoinAll and with it every handler future, and owns the
\* two guards: all of them are dropped.  A handler future that had returned
\* Pending is dropped at that await point and never polled again.
drop_publish(p) ==
    /\ At(p, "dispatch")
    /\ mode = "async"
    /\ ToPoll(p) = {}
    /\ Unresolved(p) # {}
    /\ inv' = [inv EXCEPT ![p] = DropPeers(@)]
    /\ cursor' = [cursor EXCEPT ![p] = 0]
    /\ Return(p, Cancelled)
    /\ ReleaseAll(p)
    /\ UNCHANGED <<mode, busVars, table_poisoned, handler_map_poisoned, call, futures,
                   seen_at_lock>>

\* ------------------------------------------------ panic in a handler (sync)
Panicked == Result("Panic", 0, 0, {})

\* h.handle(event_data) panics on its rayon worker; rayon catches the panic
\* and keeps it for the thread that called try_for_each.
handle_panics(p, id) ==
    /\ At(p, "dispatch")
    /\ mode = "sync"
    /\ id \in DOMAIN inv[p]
    /\ inv[p][id] = "running"
    /\ inv' = [inv EXCEPT ![p][id] = "panicked"]
    /\ UNCHANGED <<mode, busVars, lockVars, pc, call, result, futures, cursor, seen_at_lock>>

\* Variant: only the registry guard is alive when the panic unwinds publish.
publish_unwinds_registry_only(p) ==
    /\ At(p, "dispatch")
    /\ mode = "sync"
    /\ \E id \in DOMAIN inv[p] : inv[p][id] = "panicked"
    /\ \A id \in DOMAIN inv[p] : inv[p][id] # "running"
    /\ handler_map_poisoned' = [handler_map_poisoned EXCEPT ![call[p].event_type] = TRUE]
    /\ UNCHANGED table_poisoned
    /\ inv' = [inv EXCEPT ![p] = SkipRest(@)]
    /\ cursor' = [cursor EXCEPT ![p] = 0]
    /\ Return(p, Panicked)
    /\ ReleaseAll(p)
    /\ UNCHANGED <<mode, busVars, call, futures, seen_at_lock>>

\* Once the running workers are done rayon resumes the panic in the thread
\* that called publish.  The unwinding drops the two guards publish holds,
\* `handler_map` and `event_handler_map`: a std MutexGuard dropped while its
\* thread panics poisons its mutex.  publish returns nothing.
publish_unwinds(p) ==
    /\ At(p, "dispatch")
    /\ mode = "sync"
    /\ \E id \in DOMAIN inv[p] : inv[p][id] = "panicked"
    /\ \A id \in DOMAIN inv[p] : inv[p][id] # "running"
    /\ table_poisoned' = TRUE
    /\ handler_map_poisoned' = [handler_map_poisoned EXCEPT ![call[p].event_type] = TRUE]
    /\ inv' = [inv EXCEPT ![p] = SkipRest(@)]
    /\ cursor' = [cursor EXCEPT ![p] = 0]
    /\ Return(p, Panicked)
    /\ ReleaseAll(p)
    /\ UNCHANGED <<mode, busVars, call, futures, seen_at_lock>>

\* --------------------------------------------------------- specification
Next ==
    \E p \in Procs :
        \/ Call(p)
        \/ Resume(p)
        \/ LockTable(p)
        \/ LockHandlerMap(p)
        \/ subscribe_match(p)
        \/ subscribe_insert(p)
        \/ unsubscribe_match(p)
        \/ unsubscribe_remove(p)
        \/ publish_match(p)
        \/ publish_iter(p)
        \/ try_join_all_poll(p)
        \/ try_join_all_wake(p)
        \/ try_join_all_ready(p)
        \/ \E id \in Ids : try_for_each_start(p, id)
        \/ \E id \in Ids : try_for_each_finish(p, id)
        \/ try_for_each_return(p)
        \/ get_handler_count_match(p)
        \/ get_handler_count_len(p)
        \/ list(p)
        \/ clear(p)

Spec == Init /\ [][Next]_vars

\* A poll of try_join_all in which the polled handler future is Ready.
poll_ready(p) ==
    /\ try_join_all_poll(p)
    /\ \/ pc'[p] = "done"
       \/ Cardinality(Unresolved(p)') < Cardinality(Unresolved(p))

\* A step of caller p's method other than a poll answered Pending or the
\* wake-up that follows it.
MethodStep(p) ==
    \/ Resume(p)
    \/ LockTable(p)
    \/ LockHandlerMap(p)
    \/ subscribe_match(p)
    \/ subscribe_insert(p)
    \/ unsubscribe_match(p)
    \/ unsubscribe_remove(p)
    \/ publish_match(p)
    \/ publish_iter(p)
    \/ poll_ready(p)
    \/ try_join_all_ready(p)
    \/ \E id \in Ids : try_for_each_start(p, id)
    \/ \E id \in Ids : try_for_each_finish(p, id)
    \/ try_for_each_return(p)
    \/ get_handler_count_match(p)
    \/ get_handler_count_len(p)
    \/ list(p)
    \/ clear(p)

\* Fair scheduling: a caller whose next step is possible again and again
\* takes it (a waiter gets the mutex, a runnable task or thread runs), a
\* handler that is polled again and again finishes, and a suspended publish
\* is woken.  Nothing obliges a caller to start a call.
Fairness ==
    \A p \in Procs : SF_vars(MethodStep(p)) /\ WF_vars(try_join_all_wake(p))

FairSpec == Spec /\ Fairness

\* The bus with handlers that call the bus.
NextReentrant ==
    \/ Next
    \/ \E p \in Procs : subscribe_reentrant(p)

SpecReentrant == Init /\ [][NextReentrant]_vars

\* The bus with handlers that may panic.
NextPanic ==
    \/ Next
    \/ \E p \in Procs :
          \/ \E id \in Ids : handle_panics(p, id)
          \/ publish_unwinds(p)

SpecPanic == Init /\ [][NextPanic]_vars

\* The bus with callers that may give up a publish they are awaiting.
NextCancel ==
    \/ Next
    \/ \E p \in Procs : drop_publish(p)

SpecCancel == Init /\ [][NextCancel]_vars

TypeOK ==
    /\ mode \in Modes
    /\ DOMAIN event_handler_map \subseteq EventTypes
    /\ \A t \in DOMAIN event_handler_map :
          /\ DOMAIN event_handler_map[t] \subseteq Ids
          /\ \A id \in DOMAIN event_handler_map[t] :
                event_handler_map[t][id] \in Handlers \cup {CallsBus}
    /\ table_lock \in Procs \cup {NoOwner}
    /\ next_id \in 0..MaxIds

\* ================================================================ claims
Done(p, m) == pc[p] = "done" /\ call[p].method = m

\* An invocation whose handler body has begun and has not returned.
InFlight(p) == {id \in DOMAIN inv[p] : inv[p][id] \in {"pending", "running"}}

\* An invocation whose handler body ran to its end.
Completed(p) == {id \in DOMAIN inv[p] : inv[p][id] \in {"ok", "err"}}

\* C1: while a handler of one event type is still running inside a publish,
\* the publisher does not hold the table lock, so a caller waiting to start
\* an operation on another type (or list / clear) can take the table lock.
C1_TableLockFreeWhileHandlersRun ==
    \A p \in Procs :
        (pc[p] = "dispatch" /\ InFlight(p) # {}) =>
            /\ table_lock # p
            /\ \A q \in Procs \ {p} :
                  (/\ pc[q] = "lock_table"
                   /\ \/ call[q].method \in {"list", "clear"}
                      \/ call[q].event_type # call[p].event_type)
                  => ENABLED LockTable(q)

\* C2: a publish that returns Ok has run, to the end and once, the handler
\* of every id that was in the registry when publish locked it, and has
\* invoked nothing else; a subscribe that was still waiting is not served.
C2_SnapshotDispatch ==
    \A p \in Procs :
        (Done(p, "publish") /\ result[p].kind = "Ok") =>
            /\ DOMAIN inv[p] = seen_at_lock[p]
            /\ \A id \in seen_at_lock[p] : inv[p][id] = "ok"
            /\ Len(futures[p]) = Cardinality(seen_at_lock[p])

C2_Witness ==
    \E p, q \in Procs :
        /\ Done(p, "publish") /\ result[p].kind = "Ok"
        /\ seen_at_lock[p] # {}
        /\ pc[q] = "lock_table" /\ call[q].method = "subscribe"
        /\ call[q].event_type = call[p].event_type

\* C3: when a handler fails during publish, publish returns the failure of
\* a handler that failed, and every other handler that was registered for
\* the type has run to its end by the time publish returns.
C3_PeersEffectsObservable ==
    \A p \in Procs :
        (Done(p, "publish") /\ result[p].kind = "HandlerError") =>
            /\ result[p].id \in DOMAIN inv[p]
            /\ inv[p][result[p].id] = "err"
            /\ \A id \in seen_at_lock[p] \ {result[p].id} : id \in Completed(p)

\* C4: in the async build publish resolves only when every handler
\* invocation it issued has resolved, also when one of them failed: no
\* invocation is dropped before it finished.
C4_ResolvesWhenAllResolved ==
    \A p \in Procs :
        (mode = "async" /\ Done(p, "publish")) =>
            \A id \in DOMAIN inv[p] : inv[p][id] \in {"ok", "err"}

\* C5: get_handler_count, unsubscribe and publish on an event type that has
\* no entry in the table return EventTypeNotFOUND, start no handler and
\* leave the table and every registry as they were.
C5_UnknownTypeStep(p) ==
    (/\ pc[p] = "table_locked"
     /\ call[p].method \in {"get_handler_count", "unsubscribe", "publish"}
     /\ call[p].event_type \notin DOMAIN event_handler_map
     /\ pc'[p] # pc[p])
    => /\ pc'[p] = "done"
       /\ result'[p] = EventTypeNotFOUND
       /\ event_handler_map' = event_handler_map
       /\ inv'[p] = EmptyMap
       /\ futures'[p] = <<>>

C5_UnknownTypeNotFound == [][\A p \in Procs : C5_UnknownTypeStep(p)]_vars

C5_Witness ==
    \E p \in Procs :
        /\ Done(p, "publish")
        /\ result[p] = EventTypeNotFOUND
        /\ call[p].event_type \in cleared
        /\ DOMAIN event_handler_map # {}

\* Handlers subscribed to t since the last clear and not unsubscribed since.
Remaining(t) == issued[t] \ removed[t]

Returns(p, m) == pc[p] # "done" /\ pc'[p] = "done" /\ call[p].method = m

\* C6: get_handler_count(t) on a known type returns the number of handlers
\* subscribed to t since the last clear minus those of them unsubscribed,
\* and subscribe never returns an id that a subscribe returned before.
C6_CountIsSubscribedMinusUnsubscribed ==
    \A p \in Procs :
        (Done(p, "get_handler_count") /\ result[p].kind = "Ok") =>
            result[p].count = Cardinality(Remaining(call[p].event_type))

C6_FreshIdStep(p) ==
    (Returns(p, "subscribe") /\ result'[p].kind = "Ok") =>
        /\ result'[p].id \notin 1..next_id
        /\ result'[p].id \in issued'[call[p].event_type]

C6_HandlerCount ==
    /\ []C6_CountIsSubscribedMinusUnsubscribed
    /\ [][\A p \in Procs : C6_FreshIdStep(p)]_vars

C6_Witness ==
    \E p \in Procs :
        /\ Done(p, "get_handler_count")
        /\ result[p].kind = "Ok"
        /\ result[p].count = 1
        /\ Cardinality(issued[call[p].event_type]) = 2

\* C7: unsubscribe of an id that subscribe returned for the type and that is
\* still registered lowers the type's handler count by exactly 1 and returns
\* Ok; unsubscribe of an id already unsubscribed returns Ok and leaves the
\* table and every registry as they were.
C7_UnsubscribeStep(p) ==
    (At(p, "handler_map_locked") /\ Returns(p, "unsubscribe")) =>
        LET t == call[p].event_type
            id == call[p].handler_id
        IN /\ result'[p] = Ok
           /\ t \in DOMAIN event_handler_map'
           /\ id \in Remaining(t) =>
                 Cardinality(DOMAIN event_handler_map'[t])
                     = Cardinality(DOMAIN event_handler_map[t]) - 1
           /\ id \in removed[t] => event_handler_map' = event_handler_map

C7_UnsubscribeIdempotent == [][\A p \in Procs : C7_UnsubscribeStep(p)]_vars

\* A second unsubscribe of the same id has returned.
C7_Witness ==
    \E p \in Procs :
        /\ Done(p, "unsubscribe")
        /\ result[p] = Ok
        /\ call[p].handler_id \in removed[call[p].event_type]
        /\ call[p].handler_id \notin seen_at_lock[p]
        /\ seen_at_lock[p] # {}

\* C8: the id returned by subscribe addresses the handler that call
\* installed: subscribe stores the caller's handler under the returned id
\* and keeps the other entries, unsubscribe(t, id) takes out the entry of id
\* and no other, and a publish to t dispatches to every remaining handler of
\* t (running each when it returns Ok) and never to a removed one.
C8_SubscribeStep(p) ==
    (Returns(p, "subscribe") /\ result'[p].kind = "Ok") =>
        LET t == call[p].event_type
            id == result'[p].id
            old == IF t \in DOMAIN event_handler_map THEN event_handler_map[t] ELSE EmptyMap
        IN /\ DOMAIN event_handler_map'[t] = DOMAIN old \cup {id}
           /\ event_handler_map'[t][id] = call[p].handler
           /\ \A o \in DOMAIN old \ {id} : event_handler_map'[t][o] = old[o]

C8_UnsubscribeStep(p) ==
    (At(p, "handler_map_locked") /\ Returns(p, "unsubscribe")) =>
        LET t == call[p].event_type
            id == call[p].handler_id
        IN /\ DOMAIN event_handler_map'[t] = DOMAIN event_handler_map[t] \ {id}
           /\ \A o \in DOMAIN event_handler_map'[t] :
                 event_handler_map'[t][o] = event_handler_map[t][o]

C8_PublishAfterUnsubscribe ==
    \A p \in Procs :
        (Done(p, "publish") /\ result[p].kind \in {"Ok", "HandlerError"}) =>
            LET t == call[p].event_type
            IN /\ DOMAIN inv[p] = Remaining(t)
               /\ \A id \in removed[t] : id \notin DOMAIN inv[p]
               /\ result[p].kind = "Ok" => \A id \in Remaining(t) : inv[p][id] = "ok"

C9_ClearStep(p) ==
    Returns(p, "clear") => (result'[p] = Ok /\ DOMAIN event_handler_map' = {})

C9_AfterClear ==
    \A p \in Procs :
        /\ (/\ pc[p] = "done"
            /\ call[p].method \in {"get_handler_count", "unsubscribe", "publish"}
            /\ call[p].event_type \in cleared)
           => result[p] = EventTypeNotFOUND
        /\ (Done(p, "list") /\ \A t \in EventTypes : issued[t] = {})
           => result[p] = Result("Ok", 0, 0, {})

C9_ClearEmptiesBus ==
    /\ []C9_AfterClear
    /\ [][\A p \in Procs : C9_ClearStep(p)]_vars

C9_Witness ==
    \E p \in Procs :
        /\ Done(p, "list")
        /\ result[p].types = {}
        /\ cleared = EventTypes

\* C10: list() returns exactly the event types subscribed to since the most
\* recent clear, whatever was unsubscribed or published in between.
C10_ListIsSubscribedTypes ==
    \A p \in Procs :
        Done(p, "list") =>
            result[p] = Result("Ok", 0, 0, {t \in EventTypes : issued[t] # {}})

\* Both types listed although the only handler of one was unsubscribed.
C10_Witness ==
    \E p \in Procs :
        /\ Done(p, "list")
        /\ result[p].types = EventTypes
        /\ \E t \in EventTypes : removed[t] # {} /\ Remaining(t) = {}

\* C11: unsubscribing the last handler of a type keeps the type's entry:
\* list() still returns the type, get_handler_count returns 0 and publish
\* returns Ok having invoked nothing; no unsubscribe makes a type unknown.
C11_EmptiedType(t) == issued[t] # {} /\ Remaining(t) = {}

C11_AfterLastUnsubscribe ==
    \A p \in Procs :
        LET t == call[p].event_type
        IN /\ (Done(p, "get_handler_count") /\ C11_EmptiedType(t))
              => result[p] = Result("Ok", 0, 0, {})
           /\ (Done(p, "publish") /\ C11_EmptiedType(t))
              => (result[p] = Ok /\ inv[p] = EmptyMap)
           /\ Done(p, "list")
              => \A u \in EventTypes : C11_EmptiedType(u) => u \in result[p].types

C11_UnsubscribeStep(p) ==
    Returns(p, "unsubscribe") => DOMAIN event_handler_map' = DOMAIN event_handler_map

C11_EmptyRegistryStaysKnown ==
    /\ []C11_AfterLastUnsubscribe
    /\ [][\A p \in Procs : C11_UnsubscribeStep(p)]_vars

C11_Witness ==
    \E p \in Procs :
        /\ Done(p, "publish")
        /\ C11_EmptiedType(call[p].event_type)
        /\ result[p] = Ok

\* C14: publish returns Ok exactly when every handler of the snapshot was
\* invoked and returned Ok; when an invoked handler returned Err, publish
\* returns a HandlerError that is the Err of a handler that did fail.
C14_NoFailureSuppressed ==
    \A p \in Procs :
        (Done(p, "publish") /\ result[p].kind \in {"Ok", "HandlerError"}) =>
            /\ result[p].kind = "Ok" <=> \A id \in seen_at_lock[p] :
                                            id \in DOMAIN inv[p] /\ inv[p][id] = "ok"
            /\ (\E id \in DOMAIN inv[p] : inv[p][id] = "err") =>
                  /\ result[p].kind = "HandlerError"
                  /\ result[p].id \in DOMAIN inv[p]
                  /\ inv[p][result[p].id] = "err"

\* Two handlers failed in one publish and one of their errors came back.
C14_Witness ==
    \E p \in Procs :
        /\ Done(p, "publish")
        /\ result[p].kind = "HandlerError"
        /\ Cardinality({id \in DOMAIN inv[p] : inv[p][id] = "err"}) = 2

\* C15: the table lock is taken before any registry lock (a caller holding
\* or waiting for a registry lock holds the table lock, and a registry lock
\* changes hands only to the holder of the table lock), and no caller holds
\* the locks of two registries at once.
C15_HeldRegistries(p) == {t \in EventTypes : handler_map_lock[t] = p}

C15_TableLockFirst ==
    \A p \in Procs :
        /\ C15_HeldRegistries(p) # {} => table_lock = p
        /\ pc[p] \in {"lock_handler_map", "handler_map_locked", "dispatch"} => table_lock = p
        /\ Cardinality(C15_HeldRegistries(p)) <= 1

C15_AcquireStep ==
    \A t \in EventTypes :
        (handler_map_lock'[t] # handler_map_lock[t] /\ handler_map_lock'[t] # NoOwner)
            => /\ table_lock = handler_map_lock'[t]
               /\ C15_HeldRegistries(handler_map_lock'[t]) = {}

C15_LockingDiscipline == []C15_TableLockFirst /\ [][C15_AcquireStep]_vars

\* A caller holds the registry lock of "b" while both types have a registry.
C15_Witness ==
    \E p \in Procs :
        /\ handler_map_lock["b"] = p
        /\ DOMAIN event_handler_map = EventTypes

\* C16: subscribe to a name without entry stores a registry holding exactly
\* the new handler; subscribe to a name with an entry adds the handler to the
\* registry that is there, so every handler subscribed and not unsubscribed
\* since the last clear stays registered, however concurrent subscribes to
\* one name interleave.
C16_SubscribeReturn(p) ==
    Returns(p, "subscribe") =>
        LET t == call[p].event_type
            id == result'[p].id
        IN /\ t \in DOMAIN event_handler_map'
           /\ \A u \in DOMAIN event_handler_map : u \in DOMAIN event_handler_map'
           /\ \A u \in DOMAIN event_handler_map' \ {t} :
                 /\ u \in DOMAIN event_handler_map
                 /\ event_handler_map'[u] = event_handler_map[u]
           /\ IF t \in DOMAIN event_handler_map
                 THEN /\ id \notin DOMAIN event_handler_map[t]
                      /\ event_handler_map'[t] =
                            MapInsert(event_handler_map[t], id, call[p].handler)
                 ELSE event_handler_map'[t] = MapInsert(EmptyMap, id, call[p].handler)

C16_NoneLost ==
    \A t \in DOMAIN event_handler_map : Remaining(t) \subseteq DOMAIN event_handler_map[t]

C16_OneRegistryPerName == []C16_NoneLost /\ [][\A p \in Procs : C16_SubscribeReturn(p)]_vars

\* Two subscribes to one name are in progress together: the first has
\* created the registry and returned, the second waits to add its handler.
C16_Witness ==
    \E p \in Procs : \E q \in Procs \ {p} :
        /\ Done(q, "subscribe")
        /\ call[p].method = "subscribe"
        /\ pc[p] = "lock_table"
        /\ call[p].event_type = call[q].event_type
        /\ call[q].event_type \in DOMAIN event_handler_map
        /\ DOMAIN event_handler_map[call[q].event_type] = {result[q].id}

\* C20: a method holds the table lock from its first step to its return, so
\* at most one method is past event_handler_map.lock() at any time, the
\* handler invocations of two publish calls never overlap, and while a method
\* is in progress no other caller's step changes the bus.
C20_InProgress(p) ==
    pc[p] \in {"table_locked", "lock_handler_map", "handler_map_locked", "dispatch"}

C20_Invoking(p) ==
    \E id \in DOMAIN inv[p] : inv[p][id] \in {"pending", "running"}

C20_OneAtATime ==
    /\ \A p \in Procs : C20_InProgress(p) => table_lock = p
    /\ Cardinality({p \in Procs : C20_InProgress(p)}) <= 1
    /\ \A p \in Procs : \A q \in Procs \ {p} : ~(C20_Invoking(p) /\ C20_Invoking(q))

C20_AtomicStep ==
    \A p \in Procs :
        (C20_InProgress(p) /\ pc'[p] = pc[p] /\ inv'[p] = inv[p] /\ cursor'[p] = cursor[p])
            => busVars' = busVars

C20_MutualExclusion == []C20_OneAtATime /\ [][C20_AtomicStep]_vars

\* A publish is running a handler while another publish waits for the table.
C20_Witness ==
    \E p \in Procs : \E q \in Procs \ {p} :
        /\ C20_Invoking(p)
        /\ pc[q] = "lock_table"
        /\ call[q].method = "publish"

\* C12: in the sync build a caller that reaches event_handler_map.lock()
\* after the lock was poisoned returns MutexPoisoned at that step, leaving
\* the table, the registries and the locks as they were; no caller gets any
\* other answer from a poisoned bus.
C12_AcquireStep(p) ==
    (mode = "sync" /\ table_poisoned /\ pc[p] = "lock_table" /\ pc'[p] # "lock_table")
        => /\ pc'[p] = "done"
           /\ result'[p] = MutexPoisoned
           /\ busVars' = busVars
           /\ lockVars' = lockVars

C12_NoAnswerFromPoisoned ==
    \A p \in Procs :
        (mode = "sync" /\ table_poisoned /\ pc[p] = "done" /\ result[p] # Panicked)
            => result[p] = MutexPoisoned

C12_PoisonDetected ==
    /\ []C12_NoAnswerFromPoisoned
    /\ [][\A p \in Procs : C12_AcquireStep(p)]_vars

\* subscribe and clear (the two methods the claim cites) both got the error.
C12_Witness ==
    \E p \in Procs : \E q \in Procs \ {p} :
        /\ Done(p, "clear")
        /\ result[p] = MutexPoisoned
        /\ call[q].method = "subscribe"
        /\ pc[q] = "lock_table"
        /\ event_handler_map # EmptyMap

\* C19: in the sync build a handler panic during publish poisons the table
\* lock; from then on the lock stays poisoned, the table and registries never
\* change, no caller gets past event_handler_map.lock(), and every call,
\* whatever its method and event type, returns MutexPoisoned.
C19_PanicPoisonsTable ==
    \A p \in Procs :
        (Done(p, "publish") /\ result[p] = Panicked)
            => (table_poisoned /\ table_lock = NoOwner)

C19_NoneGetsIn ==
    table_poisoned =>
        \A p \in Procs :
            /\ pc[p] \in {"idle", "lock_table", "done"}
            /\ (pc[p] = "done" /\ result[p] # Panicked) => result[p] = MutexPoisoned

C19_ForeverStep ==
    table_poisoned => (table_poisoned' /\ busVars' = busVars)

C19_PoisonedForever ==
    /\ [](C19_PanicPoisonsTable /\ C19_NoneGetsIn)
    /\ [][C19_ForeverStep]_vars

\* A handler of "a" panicked; a later get_handler_count("b") is refused
\* although the registry of "b" is intact.
C19_Witness ==
    \E p \in Procs :
        /\ Done(p, "get_handler_count")
        /\ call[p].event_type = "b"
        /\ result[p] = MutexPoisoned
        /\ "b" \in DOMAIN event_handler_map
        /\ ~handler_map_poisoned["b"]

\* C13: in the async build, when the caller drops a publish that is awaiting
\* its handlers, no handler invocation that had started is cancelled.
C13_StartedHandlersSurviveDrop ==
    \A p \in Procs :
        (mode = "async" /\ Done(p, "publish") /\ result[p] = Cancelled)
            => \A id \in DOMAIN inv[p] : inv[p][id] # "cancelled"

\* C17: with handlers that terminate and do not call the bus, whenever a call
\* is in progress some caller can take a step of its method (no deadlock),
\* and under fair scheduling every call that was started returns.
C17_SomeStep == \E p \in Procs : MethodStep(p) \/ try_join_all_wake(p)

C17_NoDeadlock == (\E p \in Procs : pc[p] # "idle") => ENABLED C17_SomeStep

C18_Invoked(p, id) ==
    /\ id \in DOMAIN inv[p]
    /\ HandlerFor(p, id) = CallsBus
    /\ inv[p][id] \notin {"created", "never_polled", "skipped"}

C18_ReentrantPublishNeverReturns ==
    \A p \in Procs : \A id \in Ids :
        (call[p].method = "publish" /\ C18_Invoked(p, id))
            => /\ inv[p][id] # "ok"
               /\ pc[p] # "done"
               /\ table_lock = p

\* C21 as stated: unsubscribe(t, id) with an id whose handler is registered
\* under another type u returns success.
C21_RegisteredElsewhere(p) ==
    \E u \in EventTypes \ {call[p].event_type} : call[p].handler_id \in Remaining(u)

C21_CrossTypeUnsubscribeSucceeds ==
    \A p \in Procs :
        (Done(p, "unsubscribe") /\ C21_RegisteredElsewhere(p)) => result[p] = Ok

\* C21: no step of subscribe(t, h) or unsubscribe(t, id) changes which names
\* other than t are known or what their registries hold; unsubscribe(t, id)
\* with an id whose handler is registered under another type u changes
\* nothing at all, so the handler stays registered under u, and it returns
\* Ok when t has an entry and EventTypeNotFOUND when t has none.
C21_FrameStep(p) ==
    (/\ call[p].method \in {"subscribe", "unsubscribe"}
     /\ pc[p] \notin {"idle", "done"}
     /\ pc'[p] # pc[p])
    => \A u \in EventTypes \ {call[p].event_type} :
          /\ u \in DOMAIN event_handler_map <=> u \in DOMAIN event_handler_map'
          /\ u \in DOMAIN event_handler_map => event_handler_map'[u] = event_handler_map[u]

C21_CrossTypeStep(p) ==
    (Returns(p, "unsubscribe") /\ C21_RegisteredElsewhere(p))
    => /\ event_handler_map' = event_handler_map
       /\ result'[p] = IF call[p].event_type \in DOMAIN event_handler_map
                          THEN Ok
                          ELSE EventTypeNotFOUND

C21_SubscribeUnsubscribeFrame ==
    [][\A p \in Procs : C21_FrameStep(p) /\ C21_CrossTypeStep(p)]_vars

\* unsubscribe("b", id) returned Ok for an id issued for "a"; both types
\* have a handler and the one under "a" is still there.
C21_Witness ==
    \E p \in Procs :
        /\ Done(p, "unsubscribe")
        /\ result[p] = Ok
        /\ call[p].event_type = "b"
        /\ call[p].handler_id \in Remaining("a")
        /\ call[p].handler_id \in DOMAIN event_handler_map["a"]
        /\ DOMAIN event_handler_map["b"] # {}

\* C22: from the step in which publish, list or get_handler_count takes the
\* table lock to its return, whatever it returns, no step changes the set of
\* known types or the contents of a registry; a handler whose Err a publish
\* returned is still subscribed.
C22_ReadOnlyStep(p) ==
    (/\ call[p].method \in {"publish", "list", "get_handler_count"}
     /\ \/ C20_InProgress(p)
        \/ pc[p] = "lock_table" /\ pc'[p] # "lock_table")
    => event_handler_map' = event_handler_map

C22_FailedHandlerStays ==
    \A p \in Procs :
        (Done(p, "publish") /\ result[p].kind = "HandlerError")
            => /\ call[p].event_type \in DOMAIN event_handler_map
               /\ DOMAIN event_handler_map[call[p].event_type] = seen_at_lock[p]
               /\ event_handler_map[call[p].event_type][result[p].id] = "fail"

C22_ReadOnly ==
    /\ []C22_FailedHandlerStays
    /\ [][\A p \in Procs : C22_ReadOnlyStep(p)]_vars

\* A publish returned the Err of the only handler of its type; that handler
\* and the registry of the other type are still in the table.
C22_Witness ==
    \E p \in Procs :
        /\ Done(p, "publish")
        /\ result[p].kind = "HandlerError"
        /\ DOMAIN event_handler_map = EventTypes
        /\ DOMAIN event_handler_map[call[p].event_type] = {result[p].id}

====
